---- MODULE Spec2Model ----
\* Model of the marketing dashboard's upload pipeline:
\*   src/unnamed/part_000          (component with readExcelFile / processData)
\*   src/src/MarketingDashboard.js (earlier component, inline onload handler)
\* JavaScript strings are sequences of one-character tokens; "W" stands for the
\* won sign U+20A9, and "A^", "lq", "(c)" for the three characters U+00E2,
\* U+201A, U+00A9 that part_000 line 54 holds in front of '-'.
EXTENDS Integers, Sequences, FiniteSets, TLC

VARIABLES
    data,            \* useState([])   the session series
    error,           \* useState('')   the error banner
    selectedRegion,  \* useState('KR')
    debugInfo,       \* useState('')   the diagnostic log, a sequence of lines
    isLoading,       \* useState(false)
    pending,         \* uploads whose FileReader has not called back yet
    crashed,         \* a render threw and React unmounted the component
    engine,          \* the order Array.prototype.sort leaves when its comparator is inconsistent
    hist,            \* history: the last event and the state it started from
    lastOk,          \* history: the raw rows of the last upload that installed a series
    arg,             \* pure-function harness: the input
    ret              \* pure-function harness: the call and its result

vars == <<data, error, selectedRegion, debugInfo, isLoading, pending, crashed,
          engine, hist, lastOk, arg, ret>>

-----------------------------------------------------------------------------
\* Bounds of the model.
MaxLen == 4        \* longest enumerated cell string
MaxRows == 3       \* longest enumerated raw-row batch
MaxUploads == 2    \* uploads started in one session
MaxOther == 1      \* region changes and empty file selections in one session

-----------------------------------------------------------------------------
\* JavaScript values.  t is the typeof tag ("null" and "object" kept apart),
\* k the kind of number, n/d a finite number n / 10^d, s a string's characters.
Undefined == [t |-> "undefined", k |-> "", n |-> 0, d |-> 0, s |-> <<>>]
Null == [t |-> "null", k |-> "", n |-> 0, d |-> 0, s |-> <<>>]
Obj == [t |-> "object", k |-> "", n |-> 0, d |-> 0, s |-> <<>>]
NaN == [t |-> "number", k |-> "nan", n |-> 0, d |-> 0, s |-> <<>>]
PosInf == [t |-> "number", k |-> "inf", n |-> 1, d |-> 0, s |-> <<>>]
NegInf == [t |-> "number", k |-> "inf", n |-> -1, d |-> 0, s |-> <<>>]
Str(chars) == [t |-> "string", k |-> "", n |-> 0, d |-> 0, s |-> chars]

RECURSIVE Pow10(_)
Pow10(e) == IF e = 0 THEN 1 ELSE 10 * Pow10(e - 1)

\* The finite number m / 10^e, in lowest decimal form (the sign of zero is not kept).
RECURSIVE Fin(_, _)
Fin(m, e) ==
    IF e > 0 /\ m % 10 = 0 THEN Fin(m \div 10, e - 1)
    ELSE [t |-> "number", k |-> "fin", n |-> m, d |-> e, s |-> <<>>]

Num(m) == Fin(m, 0)
Zero == Num(0)

TypeOf(v) == IF v.t = "null" THEN "object" ELSE v.t
IsNaN(v) == v.t = "number" /\ v.k = "nan"
IsFinite(v) == v.t = "number" /\ v.k = "fin"

\* ToBoolean: what `!value` and `a || b` test.
Falsy(v) ==
    \/ v.t \in {"undefined", "null"}
    \/ v.t = "string" /\ v.s = <<>>
    \/ v.t = "number" /\ (v.k = "nan" \/ (v.k = "fin" /\ v.n = 0))

-----------------------------------------------------------------------------
\* Characters.
Digits == {"0", "1", "2", "3", "4", "5", "6", "7", "8", "9"}

DigitVal(c) ==
    CASE c = "0" -> 0 [] c = "1" -> 1 [] c = "2" -> 2 [] c = "3" -> 3
      [] c = "4" -> 4 [] c = "5" -> 5 [] c = "6" -> 6 [] c = "7" -> 7
      [] c = "8" -> 8 [] c = "9" -> 9

\* Number of consecutive digits of s from position i on.
RECURSIVE DigitRun(_, _)
DigitRun(s, i) ==
    IF i <= Len(s) /\ s[i] \in Digits THEN 1 + DigitRun(s, i + 1) ELSE 0

\* The value of the len digits of s from position i on.
RECURSIVE DigitsValue(_, _, _)
DigitsValue(s, i, len) ==
    IF len = 0 THEN 0
    ELSE 10 * DigitsValue(s, i, len - 1) + DigitVal(s[i + len - 1])

\* value.replace(/[^\d.-]/g, ''): keep digits, '.' and '-'.
KeptByClean(c) == c \in Digits \cup {".", "-"}
StripNonNumeric(s) == SelectSeq(s, KeptByClean)

\* parseFloat on a string of digits, '.' and '-': an optional '-', then the
\* longest prefix that reads digits [ '.' digits ] or '.' digits; NaN if there
\* is no digit to read.  What follows the prefix is ignored.
parseFloat(s) ==
    LET neg == Len(s) >= 1 /\ s[1] = "-"
        i == IF neg THEN 2 ELSE 1
        ni == DigitRun(s, i)
        dot == i + ni <= Len(s) /\ s[i + ni] = "."
        nf == IF dot THEN DigitRun(s, i + ni + 1) ELSE 0
        mant == DigitsValue(s, i, ni) * Pow10(nf) + DigitsValue(s, i + ni + 1, nf)
    IN  IF ni = 0 /\ nf = 0 THEN NaN
        ELSE Fin(IF neg THEN 0 - mant ELSE mant, nf)

\* The literal part_000 line 54 compares with besides '-'.
CurrencyDash == <<"A^", "lq", "(c)", "-">>

\* The mutant of C7: `parseFloat(cleaned)` without `|| 0`.
cleanNumber_NoDefault(value) ==
    IF Falsy(value) \/ value = Str(<<"-">>) \/ value = Str(CurrencyDash) THEN Zero
    ELSE IF TypeOf(value) = "number" THEN value
    ELSE IF TypeOf(value) = "string" THEN parseFloat(StripNonNumeric(value.s))
    ELSE Zero

\* The mutant of C8: the character class without ',' excluded, /[^\d.,-]/g.
cleanNumber_KeepsComma(value) ==
    IF Falsy(value) \/ value = Str(<<"-">>) \/ value = Str(CurrencyDash) THEN Zero
    ELSE IF TypeOf(value) = "number" THEN value
    ELSE IF TypeOf(value) = "string" THEN
        LET kept(c) == c \in Digits \cup {".", "-", ","}
            p == parseFloat(SelectSeq(value.s, kept))
        IN  IF Falsy(p) THEN Zero ELSE p
    ELSE Zero

cleanNumber(value) ==
    IF Falsy(value) \/ value = Str(<<"-">>) \/ value = Str(CurrencyDash) THEN Zero
    ELSE IF TypeOf(value) = "number" THEN value
    ELSE IF TypeOf(value) = "string" THEN
        LET p == parseFloat(StripNonNumeric(value.s))
        IN  IF Falsy(p) THEN Zero ELSE p
    ELSE Zero

-----------------------------------------------------------------------------
\* Dates.  A time value is [ok, day, ms]: day counts days from 1970-01-01 (UTC)
\* and ms the milliseconds into that day; ok = FALSE is the Invalid Date (NaN).
InvalidDate == [ok |-> FALSE, day |-> 0, ms |-> 0]
MsPerDay == 86400000

\* Days from 1970-01-01 to the civil date y-m-d (proleptic Gregorian), MakeDay.
DaysFromCivil(y, m, d) ==
    LET yy == IF m <= 2 THEN y - 1 ELSE y
        era == yy \div 400
        yoe == yy - era * 400
        mp == IF m > 2 THEN m - 3 ELSE m + 9
        doy == (153 * mp + 2) \div 5 + d - 1
        doe == yoe * 365 + yoe \div 4 - yoe \div 100 + doy
    IN  era * 146097 + doe - 719468

\* The civil date <<y, m, d>> of a day number: YearFromTime, MonthFromTime, DateFromTime.
CivilFromDays(z0) ==
    LET z == z0 + 719468
        era == z \div 146097
        doe == z - era * 146097
        yoe == (doe - doe \div 1460 + doe \div 36524 - doe \div 146096) \div 365
        doy == doe - (365 * yoe + yoe \div 4 - yoe \div 100)
        mp == (5 * doy + 2) \div 153
        d == doy - (153 * mp + 2) \div 5 + 1
        m == IF mp < 10 THEN mp + 3 ELSE mp - 9
        y == yoe + era * 400
    IN  <<IF m <= 2 THEN y + 1 ELSE y, m, d>>

AllDigits(s, i, len) == \A j \in i..(i + len - 1) : s[j] \in Digits

\* Date.parse on the date-only forms of the ECMAScript date-time string format
\* (YYYY, YYYY-MM, YYYY-MM-DD, read as UTC); any other string the model feeds
\* it is not a date in any form and gives NaN.
DateParse(s) ==
    LET y == DigitsValue(s, 1, 4)
        okY == Len(s) >= 4 /\ AllDigits(s, 1, 4)
        okM == Len(s) >= 7 /\ s[5] = "-" /\ AllDigits(s, 6, 2)
                 /\ DigitsValue(s, 6, 2) \in 1..12
        okD == Len(s) = 10 /\ s[8] = "-" /\ AllDigits(s, 9, 2)
                 /\ DigitsValue(s, 9, 2) \in 1..31
    IN  IF okY /\ Len(s) = 4 THEN
            [ok |-> TRUE, day |-> DaysFromCivil(y, 1, 1), ms |-> 0]
        ELSE IF okY /\ okM /\ Len(s) = 7 THEN
            [ok |-> TRUE, day |-> DaysFromCivil(y, DigitsValue(s, 6, 2), 1), ms |-> 0]
        ELSE IF okY /\ okM /\ okD THEN
            [ok |-> TRUE,
             day |-> DaysFromCivil(y, DigitsValue(s, 6, 2), DigitsValue(s, 9, 2)),
             ms |-> 0]
        ELSE InvalidDate

\* ToIntegerOrInfinity of a finite number: truncation toward zero.
Trunc(v) ==
    IF v.n >= 0 THEN v.n \div Pow10(v.d) ELSE 0 - ((0 - v.n) \div Pow10(v.d))

\* new Date(value) for one argument: a string is parsed, anything else goes
\* through ToNumber and TimeClip.
NewDate(value) ==
    IF value.t = "string" THEN DateParse(value.s)
    ELSE IF IsFinite(value) THEN
        [ok |-> TRUE, day |-> Trunc(value) \div MsPerDay, ms |-> Trunc(value) % MsPerDay]
    ELSE IF value.t = "null" THEN [ok |-> TRUE, day |-> 0, ms |-> 0]
    ELSE InvalidDate

DigitChar(n) ==
    CASE n = 0 -> "0" [] n = 1 -> "1" [] n = 2 -> "2" [] n = 3 -> "3"
      [] n = 4 -> "4" [] n = 5 -> "5" [] n = 6 -> "6" [] n = 7 -> "7"
      [] n = 8 -> "8" [] n = 9 -> "9"

Pad2(n) == <<DigitChar(n \div 10), DigitChar(n % 10)>>
Pad4(n) == Pad2(n \div 100) \o Pad2(n % 100)

\* d.toISOString() for years 0..9999: "YYYY-MM-DDTHH:mm:ss.sssZ".  The time of
\* day is written as its four fields; the model's dates need no more than that.
toISOString(tv) ==
    LET c == CivilFromDays(tv.day)
        secs == tv.ms \div 1000
    IN  Pad4(c[1]) \o <<"-">> \o Pad2(c[2]) \o <<"-">> \o Pad2(c[3]) \o <<"T">>
          \o Pad2(secs \div 3600) \o <<":">> \o Pad2((secs \div 60) % 60) \o <<":">>
          \o Pad2(secs % 60) \o <<".">> \o <<DigitChar((tv.ms % 1000) \div 100)>>
          \o Pad2(tv.ms % 100) \o <<"Z">>

\* str.split('T')[0]: the characters before the first 'T'.
RECURSIVE BeforeT(_)
BeforeT(s) ==
    IF s = <<>> \/ Head(s) = "T" THEN <<>> ELSE <<Head(s)>> \o BeforeT(Tail(s))

Includes(s, c) == \E i \in 1..Len(s) : s[i] = c

\* The mutant of C9: the date cell copied as it is (`Date: row.Date`).
formatDate_Raw(date) == date

\* formatDate: toISOString throws a RangeError on an Invalid Date, and the catch
\* returns the argument.
formatDate(date) ==
    IF Falsy(date) THEN Str(<<>>)
    ELSE IF TypeOf(date) = "string" /\ Includes(date.s, "-") THEN date
    ELSE LET d == NewDate(date)
         IN  IF d.ok THEN Str(BeforeT(toISOString(d))) ELSE date

\* new Date(a) - new Date(b): the sign of the difference, "nan" when either is invalid.
DateDiff(a, b) ==
    LET x == NewDate(a)
        y == NewDate(b)
    IN  IF ~x.ok \/ ~y.ok THEN "nan"
        ELSE IF x.day < y.day \/ (x.day = y.day /\ x.ms < y.ms) THEN "neg"
        ELSE IF x.day = y.day /\ x.ms = y.ms THEN "zero"
        ELSE "pos"

-----------------------------------------------------------------------------
\* Columns and rows.  A raw row is a function from the column names the sheet
\* has a cell for to the cell's value; row[name] of a missing cell is undefined.
REGIONS == <<"KR", "EN", "CNTW", "JP">>
RegionCodes == {REGIONS[i] : i \in 1..Len(REGIONS)}

CoreMetrics ==
    {"Steam Total Traffic", "Steam Search", "Steam 3rd Party", "Steam Discount Page",
     "Steam Bot", "Steam Other page", "Wishlist Addition", "Wishlist Deletions",
     "Purchase&Activations", "Gifts", "Total Wishlist Balance"}

IssueColumns == {"Game Issue", "Steam Issue", "UA Issue"}

\* `${channel} ${region} ${metric}`
RegionColumn(channel, region, metric) == channel \o " " \o region \o " " \o metric

RegionColumnsOf(region) ==
    {RegionColumn(ch, region, m) : ch \in {"GA", "X"}, m \in {"Cost", "Impression", "Click"}}

RegionColumns == UNION {RegionColumnsOf(r) : r \in RegionCodes}

Cell(row, name) == IF name \in DOMAIN row THEN row[name] ELSE Undefined

\* The mutant of C3: a row mapper that leaves out the cells the sheet lacks.
processRow_SkipsMissing(row) ==
    [f \in {"Date"} \cup ((CoreMetrics \cup IssueColumns \cup RegionColumns) \cap DOMAIN row) |->
        IF f = "Date" THEN formatDate(Cell(row, "Date"))
        ELSE IF f \in IssueColumns THEN Cell(row, f)
        ELSE cleanNumber(Cell(row, f))]

\* The mutant of C10: the region columns read for the selected region only
\* and stored under the first region's names.
processRow_SelectedRegion(row) ==
    [f \in {"Date"} \cup IssueColumns \cup CoreMetrics \cup RegionColumns |->
        IF f = "Date" THEN formatDate(Cell(row, "Date"))
        ELSE IF f \in IssueColumns THEN
            (IF Falsy(Cell(row, f)) THEN Str(<<>>) ELSE Cell(row, f))
        ELSE IF f \in RegionColumnsOf(REGIONS[1]) THEN
            cleanNumber(Cell(row, CHOOSE g \in RegionColumnsOf(selectedRegion) :
                \E ch \in {"GA", "X"}, m \in {"Cost", "Impression", "Click"} :
                    /\ g = RegionColumn(ch, selectedRegion, m)
                    /\ f = RegionColumn(ch, REGIONS[1], m)))
        ELSE cleanNumber(Cell(row, f))]

\* The callback of jsonData.map in processData: the processed row.
processRow(row) ==
    [f \in {"Date"} \cup IssueColumns \cup CoreMetrics \cup RegionColumns |->
        IF f = "Date" THEN formatDate(Cell(row, "Date"))
        ELSE IF f \in IssueColumns THEN
            (IF Falsy(Cell(row, f)) THEN Str(<<>>) ELSE Cell(row, f))
        ELSE cleanNumber(Cell(row, f))]

MapRows(jsonData) == [i \in 1..Len(jsonData) |-> processRow(jsonData[i])]

-----------------------------------------------------------------------------
\* processedData.sort((a, b) => new Date(a.Date) - new Date(b.Date)).
\* Array.prototype.sort reads a NaN from the comparator as +0.  When the
\* comparator is a consistent comparison function for the elements the result
\* is the stable ascending order; when it is not, the order is
\* implementation-defined: the engine leaves some permutation of the elements,
\* the same one every time it is given the same array.

\* The comparator is consistent unless an invalid date (equal to everything)
\* stands beside two dates that differ.
ConsistentComparator(arr) ==
    \/ \A i \in 1..Len(arr) : NewDate(arr[i].Date).ok
    \/ \A i, j \in 1..Len(arr) :
          (NewDate(arr[i].Date).ok /\ NewDate(arr[j].Date).ok)
              => DateDiff(arr[i].Date, arr[j].Date) = "zero"

\* x put into the sorted sequence s behind every element it is not before.
RECURSIVE InsertSorted(_, _)
InsertSorted(x, s) ==
    IF s = <<>> THEN <<x>>
    ELSE IF DateDiff(x.Date, Head(s).Date) = "neg" THEN <<x>> \o s
    ELSE <<Head(s)>> \o InsertSorted(x, Tail(s))

RECURSIVE StableSort(_)
StableSort(arr) ==
    IF arr = <<>> THEN <<>>
    ELSE InsertSorted(arr[Len(arr)], StableSort(SubSeq(arr, 1, Len(arr) - 1)))

Orders(n) ==
    {p \in [1..n -> 1..n] : \A i, j \in 1..n : p[i] = p[j] => i = j}

\* The elements of arr in the order the permutation p of 1..MaxRows names them.
ApplyEngine(arr, p) ==
    LET small(i) == i <= Len(arr)
        order == SelectSeq(p, small)
    IN  [i \in 1..Len(arr) |-> arr[order[i]]]

\* order is the permutation the engine in use leaves in that case.
sortByDate(arr, order) ==
    IF ConsistentComparator(arr) THEN StableSort(arr) ELSE ApplyEngine(arr, order)

\* processData's series: the value given to setData.
processedData(jsonData, order) == sortByDate(MapRows(jsonData), order)

-----------------------------------------------------------------------------
\* Inputs.
Date_2024_01_15 == Str(<<"2", "0", "2", "4", "-", "0", "1", "-", "1", "5">>)
Date_2024_02_01 == Str(<<"2", "0", "2", "4", "-", "0", "2", "-", "0", "1">>)

\* The cell strings the enumeration is made of.
NumChars == {"0", "1", ".", "-", ",", "W"}
EnumStrings == UNION {[1..n -> NumChars] : n \in 0..MaxLen}

\* Cells named by the specification's examples and the other kinds of value.
ExampleCells ==
    {Undefined, Null, Obj, NaN, PosInf, NegInf,
     Num(500), Num(0), Num(-3), Fin(-425, 1), Num(86400000), Num(-1),
     Str(<<"W", "1", ",", "2", "3", "4">>), Str(<<"-", "4", "2", ".", "5">>),
     Str(CurrencyDash), Str(<<"W", "-">>), Str(<<"1", ",", "0", "0", "0">>),
     Str(<<"5", "0">>), Str(<<"a", "b", "c">>), Str(<<"a", "-", "b">>),
     Str(<<"2", "0", "2", "4">>), Date_2024_01_15, Date_2024_02_01}

CellInputs == {Str(s) : s \in EnumStrings} \cup ExampleCells

\* The date cells: values whose reading as a date every engine agrees on.
DateInputs ==
    {Undefined, Null, Obj, NaN, PosInf, Num(0), Num(86400000), Num(-1), Fin(15, 1),
     Str(<<>>), Str(<<"a", "b", "c">>), Str(<<"a", "-", "b">>), Str(<<"-">>),
     Str(<<"2", "0", "2", "4">>), Date_2024_01_15, Date_2024_02_01}

\* Sample raw rows: the two rows of the specification's end-to-end scenario, a
\* row without a date, a second row of 2024-02-01 and a row whose date is text
\* (the last one is uploaded in the session, not enumerated in the batches).
RowFeb ==
    ("Date" :> Date_2024_02_01)
    @@ ("Steam Total Traffic" :> Str(<<"1", ",", "0", "0", "0">>))
    @@ ("GA KR Click" :> Str(<<"5", "0">>))

RowJan ==
    ("Date" :> Date_2024_01_15)
    @@ ("Steam Total Traffic" :> Str(<<"-">>))
    @@ ("GA KR Click" :> Str(<<>>))

RowNoDate ==
    ("X JP Cost" :> Str(<<"W", "1", ",", "2", "3", "4">>))
    @@ ("Game Issue" :> Str(<<"p">>))
    @@ ("Gifts" :> Str(<<"n", "/", "a">>))

RowFebAgain ==
    ("Date" :> Date_2024_02_01)
    @@ ("Steam Total Traffic" :> Str(<<"7">>))
    @@ ("Total Wishlist Balance" :> Num(500))
    @@ ("X EN Click" :> Str(<<"3">>))

RowText ==
    ("Date" :> Str(<<"a", "b", "c">>))
    @@ ("GA EN Click" :> Str(<<"9">>))
    @@ ("X EN Click" :> Str(<<"4">>))

SampleRows == {RowFeb, RowJan, RowNoDate, RowFebAgain}

Batches == UNION {[1..n -> SampleRows] : n \in 0..MaxRows}

IdentityOrder == [i \in 1..MaxRows |-> i]

-----------------------------------------------------------------------------
\* The component's state after its first render (part_000 lines 33-37).
NoCall == [fn |-> "none"]

SessionInit ==
    /\ data = <<>>
    /\ error = <<>>
    /\ selectedRegion = "KR"
    /\ debugInfo = <<>>
    /\ isLoading = FALSE
    /\ pending = <<>>
    /\ crashed = FALSE
    /\ hist = [ev |-> "init", done |-> 0, other |-> 0]
    /\ lastOk = <<>>

session == <<data, error, selectedRegion, debugInfo, isLoading, pending, crashed, hist, lastOk>>

-----------------------------------------------------------------------------
\* SpecFn: the scalar normalizers and the row mapper applied to one cell.
InitFn ==
    /\ SessionInit
    /\ engine = IdentityOrder
    /\ arg \in CellInputs \cup DateInputs
    /\ ret = NoCall

CallCleanNumber ==
    /\ ret = NoCall
    /\ ret' = [fn |-> "cleanNumber", val |-> cleanNumber(arg)]
    /\ UNCHANGED <<session, engine, arg>>

CallFormatDate ==
    /\ ret = NoCall
    /\ arg \in DateInputs
    /\ ret' = [fn |-> "formatDate", val |-> formatDate(arg)]
    /\ UNCHANGED <<session, engine, arg>>

\* A row whose date cell and one metric cell hold the input.
CallProcessRow ==
    /\ ret = NoCall
    /\ arg \in DateInputs
    /\ ret' = [fn |-> "processRow", val |-> processRow(("Date" :> arg) @@ ("Gifts" :> arg))]
    /\ UNCHANGED <<session, engine, arg>>

NextFn == CallCleanNumber \/ CallFormatDate \/ CallProcessRow

SpecFn == InitFn /\ [][NextFn]_vars

-----------------------------------------------------------------------------
\* SpecBuild: processData's series built from one batch, twice, with the region
\* selector free to change before and between the runs.
InitBuild ==
    /\ SessionInit
    /\ arg \in Batches
    /\ engine \in (IF ConsistentComparator(MapRows(arg)) THEN {IdentityOrder}
                   ELSE Orders(MaxRows))
    /\ ret = [fn |-> "processData", runs |-> <<>>, regions |-> <<>>]

BuildRun ==
    /\ ret.fn = "processData"
    /\ Len(ret.runs) < 2
    /\ ret' = [ret EXCEPT !.runs = Append(@, processedData(arg, engine)),
                          !.regions = Append(@, selectedRegion)]
    /\ data' = processedData(arg, engine)
    /\ UNCHANGED <<error, selectedRegion, debugInfo, isLoading, pending, crashed, hist,
                   lastOk, engine, arg>>

BuildSelectRegion ==
    /\ ret.fn = "processData"
    /\ Len(ret.runs) < 2
    /\ \E r \in RegionCodes \ {selectedRegion} : selectedRegion' = r
    /\ UNCHANGED <<data, error, debugInfo, isLoading, pending, crashed, hist,
                   lastOk, engine, arg, ret>>

NextBuild == BuildRun \/ BuildSelectRegion

SpecBuild == InitBuild /\ [][NextBuild]_vars

-----------------------------------------------------------------------------
\* Claims about cleanNumber and the date of a mapped row (SpecFn).

\* C7 as stated: cleanNumber returns a finite number for every input (any
\* string, any number, null, undefined).
C7_FiniteForEveryInput ==
    ret.fn = "cleanNumber" => IsFinite(ret.val)

\* C7 (amended): for every input cleanNumber returns a number that is never
\* NaN, and the number is finite unless the input is the number +Infinity or
\* -Infinity, which it returns unchanged.
C7_NumberNeverNaN ==
    ret.fn = "cleanNumber" =>
        /\ TypeOf(ret.val) = "number"
        /\ ~IsNaN(ret.val)
        /\ (arg \notin {PosInf, NegInf} => IsFinite(ret.val))
        /\ (arg \in {PosInf, NegInf} => ret.val = arg)

\* A string with no digit left after the strip has been cleaned to 0.
C7_Witness ==
    /\ ret.fn = "cleanNumber"
    /\ arg = Str(<<"W", ".", "-">>)
    /\ ret.val = Zero

\* A decimal literal as parseFloat reads one: an optional '-', then digits with
\* at most one '.', at least one digit.
WellFormedDecimal(p) ==
    LET from == IF p # <<>> /\ p[1] = "-" THEN 2 ELSE 1
        body == SubSeq(p, from, Len(p))
    IN  /\ \A j \in 1..Len(body) : body[j] \in Digits \cup {"."}
        /\ Cardinality({j \in 1..Len(body) : body[j] = "."}) <= 1
        /\ \E j \in 1..Len(body) : body[j] \in Digits

\* The number a well-formed decimal literal denotes.
DecimalValue(p) ==
    LET isDigit(c) == c \in Digits
        digits == SelectSeq(p, isDigit)
        dotAt == {j \in 1..Len(p) : p[j] = "."}
        places == IF dotAt = {} THEN 0 ELSE Len(p) - (CHOOSE j \in dotAt : TRUE)
        mant == DigitsValue(digits, 1, Len(digits))
    IN  Fin(IF p[1] = "-" THEN 0 - mant ELSE mant, places)

\* The float parsed from s once every character that is not a digit, '.' or
\* '-' is removed: the value of the longest leading decimal literal of what is
\* left, and 0 when there is none.
ParsedAfterStrip(s) ==
    LET numeric(c) == c \in Digits \cup {".", "-"}
        left == SelectSeq(s, numeric)
        lens == {k \in 1..Len(left) : WellFormedDecimal(SubSeq(left, 1, k))}
    IN  IF lens = {} THEN Zero
        ELSE DecimalValue(SubSeq(left, 1, CHOOSE k \in lens : \A j \in lens : j <= k))

ZeroCells == {Undefined, Null, Str(<<>>), Str(<<"-">>), Str(<<"W", "-">>)}

\* C8 as stated: 0 for undefined, null, '', '-' and the currency-prefixed '-';
\* a number input unchanged; any other string gives the float parsed after the
\* strip, or 0 when there is none.
C8_AsStated ==
    ret.fn = "cleanNumber" =>
        /\ (arg \in ZeroCells => ret.val = Zero)
        /\ (TypeOf(arg) = "number" => ret.val = arg)
        /\ (TypeOf(arg) = "string" /\ arg \notin ZeroCells => ret.val = ParsedAfterStrip(arg.s))

\* C8 (amended): as stated, except that the number NaN is not returned
\* unchanged: it gives 0.
C8_CleanNumberValue ==
    ret.fn = "cleanNumber" =>
        /\ (arg \in ZeroCells => ret.val = Zero)
        /\ (TypeOf(arg) = "number" /\ ~IsNaN(arg) => ret.val = arg)
        /\ (IsNaN(arg) => ret.val = Zero)
        /\ (TypeOf(arg) = "string" /\ arg \notin ZeroCells => ret.val = ParsedAfterStrip(arg.s))
        /\ (arg = Str(<<"W", "1", ",", "2", "3", "4">>) => ret.val = Num(1234))
        /\ (arg = Str(<<"-", "4", "2", ".", "5">>) => ret.val = Fin(-425, 1))

\* The specification's example: the won sign and the thousands separator are removed.
C8_Witness ==
    /\ ret.fn = "cleanNumber"
    /\ arg = Str(<<"W", "1", ",", "2", "3", "4">>)
    /\ ret.val = Num(1234)

DaysInMonth(y, m) ==
    IF m = 2 THEN (IF y % 4 = 0 /\ (y % 100 # 0 \/ y % 400 = 0) THEN 29 ELSE 28)
    ELSE IF m \in {4, 6, 9, 11} THEN 30 ELSE 31

\* v is a string YYYY-MM-DD that names a day of the calendar.
IsCalendarDateString(v) ==
    /\ TypeOf(v) = "string"
    /\ Len(v.s) = 10
    /\ \A j \in {1, 2, 3, 4, 6, 7, 9, 10} : v.s[j] \in Digits
    /\ v.s[5] = "-" /\ v.s[8] = "-"
    /\ DigitsValue(v.s, 6, 2) \in 1..12
    /\ DigitsValue(v.s, 9, 2) \in 1..DaysInMonth(DigitsValue(v.s, 1, 4), DigitsValue(v.s, 6, 2))

-----------------------------------------------------------------------------
\* SpecTies: SpecBuild on batches of up to one row more, the least that can
\* hold two rows of one date beside an undated row and a row of another date.
TieBatches == UNION {[1..n -> SampleRows] : n \in 0..(MaxRows + 1)}

InitTies ==
    /\ SessionInit
    /\ arg \in TieBatches
    /\ engine \in (IF ConsistentComparator(MapRows(arg))
                    THEN {IdentityOrder} ELSE Orders(Len(arg)))
    /\ ret = [fn |-> "processData", runs |-> <<>>, regions |-> <<>>]

SpecTies == InitTies /\ [][NextBuild]_vars

-----------------------------------------------------------------------------
\* Claims about the series processData builds (SpecBuild).

ClaimRegionColumns ==
    {ch \o " " \o r \o " " \o m :
        ch \in {"GA", "X"}, r \in {"KR", "EN", "CNTW", "JP"}, m \in {"Cost", "Impression", "Click"}}

IsNumeric(v) == TypeOf(v) = "number" /\ ~IsNaN(v)

\* C3: a batch of N raw rows gives a series of exactly N records, and every
\* record has the eleven core-metric fields and the 24 region-metric fields,
\* each with a numeric value, whatever cells the rows lack or garble.
C3_SameLengthAllFieldsNumeric ==
    /\ Cardinality(CoreMetrics) = 11
    /\ Cardinality(ClaimRegionColumns) = 24
    /\ \A k \in 1..Len(ret.runs) :
        /\ Len(ret.runs[k]) = Len(arg)
        /\ \A i \in 1..Len(ret.runs[k]) :
              \A f \in CoreMetrics \cup ClaimRegionColumns :
                  /\ f \in DOMAIN ret.runs[k][i]
                  /\ IsNumeric(ret.runs[k][i][f])

\* Three rows, one without a date and with a garbled metric, have been built
\* into three records; the missing "Wishlist Addition" is 0.
C3_Witness ==
    /\ Len(ret.runs) >= 1
    /\ Len(arg) = 3
    /\ \E i \in 1..3 : arg[i] = RowNoDate
    /\ Len(ret.runs[1]) = 3
    /\ \A i \in 1..3 : ret.runs[1][i]["Wishlist Addition"] = Zero

ValidDate(v) == NewDate(v).ok

-----------------------------------------------------------------------------
\* The upload flow of part_000: handleFileUpload, readExcelFile, processData.

\* The files a user can pick.  A "sheet" decodes to rows; XLSX.read throws an
\* Error with message msg on a "corrupt" one; the FileReader fails on an
\* "unreadable" one, reader.error carrying msg.
FileScenario ==
    [name |-> "scenario.xlsx", kind |-> "sheet", rows |-> <<RowFeb, RowJan>>, msg |-> ""]
FileOther ==
    [name |-> "other.xlsx", kind |-> "sheet", rows |-> <<RowText, RowFebAgain>>, msg |-> ""]
FileEmpty ==
    [name |-> "empty.xlsx", kind |-> "sheet", rows |-> <<>>, msg |-> ""]
FileCorrupt ==
    [name |-> "corrupt.xlsx", kind |-> "corrupt", rows |-> <<>>, msg |-> "Unsupported file"]
FileUnreadable ==
    [name |-> "gone.xlsx", kind |-> "unreadable", rows |-> <<>>,
     msg |-> "The file could not be read"]

Files == {FileScenario, FileOther, FileEmpty, FileCorrupt, FileUnreadable}

\* What reaches the catch of handleFileUpload: the Error XLSX.read threw, or
\* the ProgressEvent reader.onerror was called with, which has no message.
ThrownError(f) == [type |-> "Error", message |-> f.msg]
ProgressEvent == [type |-> "error"]

\* `${err.message}`
MessageText(err) == IF "message" \in DOMAIN err THEN err.message ELSE "undefined"

RECURSIVE NatDigits(_)
NatDigits(n) ==
    IF n < 10 THEN <<DigitChar(n)>> ELSE NatDigits(n \div 10) \o <<DigitChar(n % 10)>>

RECURSIVE Grouped(_)
Grouped(n) ==
    IF n < 1000 THEN NatDigits(n)
    ELSE Grouped(n \div 1000) \o <<",">> \o <<DigitChar((n % 1000) \div 100)>> \o Pad2(n % 100)

\* formatNumber: '0' for undefined and null, else Intl.NumberFormat('en-US'):
\* grouped integer digits and at most three fraction digits, rounded half up.
formatNumber(num) ==
    IF num.t \in {"undefined", "null"} THEN <<"0">>
    ELSE IF IsNaN(num) THEN <<"N", "a", "N">>
    ELSE IF ~IsFinite(num) THEN (IF num.n < 0 THEN <<"-">> ELSE <<>>) \o <<"oo">>
    ELSE LET abs == IF num.n < 0 THEN 0 - num.n ELSE num.n
             r == IF num.d > 3
                  THEN Fin((abs + 5 * Pow10(num.d - 4)) \div Pow10(num.d - 3), 3)
                  ELSE Fin(abs, num.d)
             whole == r.n \div Pow10(r.d)
             frac == r.n % Pow10(r.d)
             fracDigits == [i \in 1..r.d |-> DigitChar((frac \div Pow10(r.d - i)) % 10)]
         IN  (IF num.n < 0 /\ r.n # 0 THEN <<"-">> ELSE <<>>)
               \o Grouped(whole)
               \o (IF r.d > 0 THEN <<".">> \o fracDigits ELSE <<>>)

\* `${value}` of a record's Date.
TemplateText(v) ==
    IF v.t = "string" THEN v.s
    ELSE IF v.t = "undefined" THEN <<"undefined">>
    ELSE IF v.t = "number" /\ v.k = "inf" THEN <<"Infinity">>
    ELSE IF IsFinite(v) /\ v.d = 0 THEN
        (IF v.n < 0 THEN <<"-">> ELSE <<>>) \o NatDigits(IF v.n < 0 THEN 0 - v.n ELSE v.n)
    ELSE <<"?">>

\* The block processData adds to the log (lines 172-181); region is the
\* selectedRegion of the render whose handleFileUpload started the upload.
SummaryLine(series, region) ==
    LET firstRow == series[1]
        lastRow == series[Len(series)]
    IN  <<"Data Processing Complete",
          TemplateText(firstRow.Date), TemplateText(lastRow.Date),
          formatNumber(lastRow["Steam Total Traffic"]),
          formatNumber(lastRow["Total Wishlist Balance"]),
          region,
          formatNumber(lastRow[RegionColumn("GA", region, "Click")]),
          formatNumber(lastRow[RegionColumn("X", region, "Click")])>>

\* The mutant of C6: the new records put behind the ones already held.
installed_Merging(series) == data \o series

\* The mutant of C11: a result that arrives while another upload is still in
\* flight is dropped.
installed_DroppedWhileOverlapping(series) == IF Len(pending) > 1 THEN data ELSE series

\* setData(processedData): the series that replaces the session's.
installed(series) == series

RemoveAt(s, i) == SubSeq(s, 1, i - 1) \o SubSeq(s, i + 1, Len(s))

Started == Len(pending) + hist.done

\* handleFileUpload when the picker was closed without a file.
SelectNoFile ==
    /\ ~crashed
    /\ hist.other < MaxOther
    /\ debugInfo' = <<<<"No file selected">>>>
    /\ hist' = [ev |-> "nofile", done |-> hist.done, other |-> hist.other + 1]
    /\ UNCHANGED <<data, error, selectedRegion, isLoading, pending, crashed,
                   lastOk, engine, arg, ret>>

\* handleFileUpload up to `await readExcelFile(file)`.
StartUpload(f) ==
    /\ ~crashed
    /\ Started < MaxUploads
    /\ isLoading' = TRUE
    /\ debugInfo' = <<<<"File selected", f.name>>>>
    /\ pending' = Append(pending, [file |-> f, region |-> selectedRegion])
    /\ hist' = [ev |-> "started", done |-> hist.done, other |-> hist.other]
    /\ UNCHANGED <<data, error, selectedRegion, crashed, lastOk, engine, arg, ret>>

\* The catch and finally of handleFileUpload, for the upload at position i.
Rejected(i, err, text) ==
    /\ error' = <<"Error processing file: ", MessageText(err)>>
    /\ debugInfo' = Append(debugInfo, <<"Error", MessageText(err)>>)
    /\ isLoading' = FALSE
    /\ pending' = RemoveAt(pending, i)
    /\ hist' = [ev |-> "failed", done |-> hist.done + 1, other |-> hist.other, text |-> text,
                data |-> data, debugInfo |-> debugInfo]
    /\ UNCHANGED <<data, selectedRegion, crashed, lastOk, engine, arg, ret>>

\* reader.onload when XLSX.read throws: reject(err).
OnLoadThrows(i) ==
    /\ ~crashed
    /\ i \in 1..Len(pending)
    /\ pending[i].file.kind = "corrupt"
    /\ Rejected(i, ThrownError(pending[i].file), pending[i].file.msg)

\* reader.onerror: reject(err) with the ProgressEvent.
OnError(i) ==
    /\ ~crashed
    /\ i \in 1..Len(pending)
    /\ pending[i].file.kind = "unreadable"
    /\ Rejected(i, ProgressEvent, pending[i].file.msg)

\* reader.onload when the decode gives at least one row, then processData and
\* the finally.  An inconsistent comparator fixes the engine's order the first
\* time it meets one.
OnLoadRows(i) ==
    /\ ~crashed
    /\ i \in 1..Len(pending)
    /\ pending[i].file.kind = "sheet"
    /\ pending[i].file.rows # <<>>
    /\ \E jsonData \in {pending[i].file.rows} :
           /\ engine' \in (IF engine = <<>> /\ ~ConsistentComparator(MapRows(jsonData))
                           THEN Orders(MaxRows) ELSE {engine})
           /\ LET series == processedData(jsonData, engine')
              IN  /\ debugInfo' = debugInfo \o
                        <<<<"Sheet name", "Sheet1">>,
                          <<"Total rows found", Len(jsonData)>>,
                          SummaryLine(series, pending[i].region)>>
                  /\ data' = installed(series)
           /\ lastOk' = <<jsonData>>
    /\ isLoading' = FALSE
    /\ pending' = RemoveAt(pending, i)
    /\ hist' = [ev |-> "processed", done |-> hist.done + 1, other |-> hist.other,
                rows |-> Len(pending[i].file.rows)]
    /\ UNCHANGED <<error, selectedRegion, crashed, arg, ret>>

\* reader.onload when the decode gives no row.  processData queues the updater
\* of lines 172-181, setData([]) and setIsLoading(false); the updater reads
\* firstRow.Date of an undefined firstRow when React runs it in the next render,
\* the render throws a TypeError and, with no error boundary around the
\* component, React unmounts it: nothing queued is committed.
OnLoadNoRows(i) ==
    /\ ~crashed
    /\ i \in 1..Len(pending)
    /\ pending[i].file.kind = "sheet"
    /\ pending[i].file.rows = <<>>
    /\ crashed' = TRUE
    /\ pending' = RemoveAt(pending, i)
    /\ hist' = [ev |-> "processed", done |-> hist.done + 1, other |-> hist.other, rows |-> 0,
                error |-> error]
    /\ UNCHANGED <<data, error, selectedRegion, debugInfo, isLoading, lastOk, engine, arg, ret>>

\* The region select's onChange.
SelectRegion(r) ==
    /\ ~crashed
    /\ hist.other < MaxOther
    /\ r # selectedRegion
    /\ selectedRegion' = r
    /\ hist' = [ev |-> "region", done |-> hist.done, other |-> hist.other + 1]
    /\ UNCHANGED <<data, error, debugInfo, isLoading, pending, crashed,
                   lastOk, engine, arg, ret>>

Init ==
    /\ SessionInit
    /\ engine = <<>>
    /\ arg = Undefined
    /\ ret = NoCall

Next ==
    \/ SelectNoFile
    \/ \E f \in Files : StartUpload(f)
    \/ \E i \in 1..MaxUploads : OnLoadThrows(i)
    \/ \E i \in 1..MaxUploads : OnError(i)
    \/ \E i \in 1..MaxUploads : OnLoadRows(i)
    \/ \E i \in 1..MaxUploads : OnLoadNoRows(i)
    \/ \E r \in RegionCodes : SelectRegion(r)

Spec == Init /\ [][Next]_vars

-----------------------------------------------------------------------------
\* Claims about the upload flow of part_000 (Spec).

\* C1: when decoding an uploaded file fails (the spreadsheet read throws, or
\* the file read itself errors), the series is what it was, the error message
\* is non-empty and carries the failure's text, and the failure's text is
\* appended to the diagnostic log.
C1_FailureKeepsSeriesAndReportsText ==
    hist.ev = "failed" =>
        /\ data = hist.data
        /\ error # <<>>
        /\ error[Len(error)] = hist.text
        /\ debugInfo = Append(hist.debugInfo, <<"Error", hist.text>>)

\* C2: an upload whose decode gives zero rows is not an error: processing
\* completes without throwing and without setting the error message, and the
\* session series becomes the empty series.
C2_EmptyUploadCompletes ==
    (hist.ev = "processed" /\ hist.rows = 0) =>
        /\ ~crashed
        /\ error = hist.error
        /\ data = <<>>

\* s is t with its elements in some order.
IsPermutationOf(s, t) ==
    /\ Len(s) = Len(t)
    /\ \E p \in Orders(Len(t)) : \A i \in 1..Len(t) : s[i] = t[p[i]]

\* C6: in every reachable state the session series is empty, no upload having
\* installed one, or it is exactly the series built from the rows of the one
\* upload that completed successfully last: nothing of an earlier upload is in
\* it, and neither a failed upload nor a region change alters it.
C6_SeriesOfLastSuccessfulUpload ==
    IF lastOk = <<>> THEN data = <<>>
    ELSE /\ data = processedData(lastOk[1], engine)
         /\ IsPermutationOf(data, MapRows(lastOk[1]))

\* Both uploads of the session installed a series, the second one the two rows
\* of other.xlsx, and the region was changed as well.
C6_Witness ==
    /\ hist.done = 2
    /\ error = <<>>
    /\ ~crashed
    /\ lastOk = <<FileOther.rows>>
    /\ Len(data) = 2
    /\ selectedRegion # "KR"

C12_SummaryOfRegionAtCompletion ==
    (hist.ev = "processed" /\ hist.rows > 0) =>
        LET summary == debugInfo[Len(debugInfo)]
            lastRow == data[Len(data)]
        IN  /\ summary[6] = selectedRegion
            /\ summary[7] = formatNumber(lastRow[RegionColumn("GA", selectedRegion, "Click")])
            /\ summary[8] = formatNumber(lastRow[RegionColumn("X", selectedRegion, "Click")])

\* C14: isLoading is true in every state in which at least one upload has been
\* started and has not finished (its decode neither processed nor failed),
\* also when two uploads overlap; it is false only when none is in flight.
C14_LoadingWhileUploadInFlight ==
    (~crashed /\ Len(pending) > 0) => isLoading

\* C15: in the upload flow of part_000, when an upload completes successfully
\* and installs its series the error message an earlier failed upload left is
\* cleared, so a non-empty error message is that of the upload that completed
\* last.
C15_SuccessClearsError ==
    (hist.ev = "processed" /\ hist.rows > 0) => error = <<>>

-----------------------------------------------------------------------------
\* The upload flow of src/src/MarketingDashboard.js: handleFileUpload with the
\* decode and the row mapping inside reader.onload.  It has no isLoading and
\* sets no reader.onerror.

\* formatNumber of that file: Intl.NumberFormat('en-US').format(num || 0).
legacyFormatNumber(num) == formatNumber(IF Falsy(num) THEN Zero ELSE num)

\* The callback of jsonData.map (lines 57-75): the date cell as it is, the core
\* metrics, and the two click columns of the region selected when the upload
\* was started.
legacyProcessRow(row, region) ==
    [f \in {"Date"} \cup CoreMetrics
           \cup {RegionColumn("GA", region, "Click"), RegionColumn("X", region, "Click")} |->
        IF f = "Date" THEN Cell(row, "Date") ELSE cleanNumber(Cell(row, f))]

legacyMapRows(jsonData, region) ==
    [i \in 1..Len(jsonData) |-> legacyProcessRow(jsonData[i], region)]

\* The message of the TypeError that jsonData[0].Date throws on an empty array.
TypeErrorText == "Cannot read properties of undefined (reading 'Date')"

LegacySelectNoFile ==
    /\ hist.other < MaxOther
    /\ debugInfo' = <<<<"No file selected">>>>
    /\ hist' = [ev |-> "nofile", done |-> hist.done, other |-> hist.other + 1]
    /\ UNCHANGED <<data, error, selectedRegion, isLoading, pending, crashed,
                   lastOk, engine, arg, ret>>

\* handleFileUpload: the reader is started and the handler returns.
LegacyStartUpload(f) ==
    /\ Started < MaxUploads
    /\ debugInfo' = <<<<"File selected", f.name>>>>
    /\ pending' = Append(pending, [file |-> f, region |-> selectedRegion])
    /\ hist' = [ev |-> "started", done |-> hist.done, other |-> hist.other]
    /\ UNCHANGED <<data, error, selectedRegion, isLoading, crashed, lastOk, engine, arg, ret>>

\* reader.onload when XLSX.read throws: the catch of lines 92-96.
LegacyOnLoadThrows(i) ==
    /\ i \in 1..Len(pending)
    /\ pending[i].file.kind = "corrupt"
    /\ error' = <<"Error reading Excel file: ", pending[i].file.msg>>
    /\ debugInfo' = Append(debugInfo, <<"Error", pending[i].file.msg>>)
    /\ pending' = RemoveAt(pending, i)
    /\ hist' = [ev |-> "failed", done |-> hist.done + 1, other |-> hist.other,
                text |-> pending[i].file.msg, data |-> data, debugInfo |-> debugInfo]
    /\ UNCHANGED <<data, selectedRegion, isLoading, crashed, lastOk, engine, arg, ret>>

\* reader.onload when the decode gives no row: jsonData[0].Date throws inside
\* the try, after the first two log lines were queued.
LegacyOnLoadNoRows(i) ==
    /\ i \in 1..Len(pending)
    /\ pending[i].file.kind = "sheet"
    /\ pending[i].file.rows = <<>>
    /\ error' = <<"Error reading Excel file: ", TypeErrorText>>
    /\ debugInfo' = debugInfo \o
          <<<<"Sheet name", "Sheet1">>, <<"Total rows found", 0>>, <<"Error", TypeErrorText>>>>
    /\ pending' = RemoveAt(pending, i)
    /\ hist' = [ev |-> "processed", done |-> hist.done + 1, other |-> hist.other, rows |-> 0,
                error |-> error]
    /\ UNCHANGED <<data, selectedRegion, isLoading, crashed, lastOk, engine, arg, ret>>

\* reader.onload when the decode gives rows: lines 52-91.
LegacyOnLoadRows(i) ==
    /\ i \in 1..Len(pending)
    /\ pending[i].file.kind = "sheet"
    /\ pending[i].file.rows # <<>>
    /\ LET region == pending[i].region
           jsonData == legacyMapRows(pending[i].file.rows, region)
           lastRow == jsonData[Len(jsonData)]
       IN  /\ debugInfo' = debugInfo \o
                 <<<<"Sheet name", "Sheet1">>,
                   <<"Total rows found", Len(jsonData)>>,
                   <<"Date range", TemplateText(jsonData[1].Date), TemplateText(lastRow.Date)>>,
                   <<"Latest metrics", TemplateText(lastRow.Date)>>,
                   <<"Total Traffic", legacyFormatNumber(lastRow["Steam Total Traffic"])>>,
                   <<"Total Wishlist Balance",
                     legacyFormatNumber(lastRow["Total Wishlist Balance"])>>,
                   <<"GA Clicks", region,
                     legacyFormatNumber(lastRow[RegionColumn("GA", region, "Click")])>>,
                   <<"X Clicks", region,
                     legacyFormatNumber(lastRow[RegionColumn("X", region, "Click")])>>>>
           /\ data' = jsonData
    /\ error' = <<>>
    /\ lastOk' = <<pending[i].file.rows>>
    /\ pending' = RemoveAt(pending, i)
    /\ hist' = [ev |-> "processed", done |-> hist.done + 1, other |-> hist.other,
                rows |-> Len(pending[i].file.rows)]
    /\ UNCHANGED <<selectedRegion, isLoading, crashed, engine, arg, ret>>

LegacySelectRegion(r) ==
    /\ hist.other < MaxOther
    /\ r # selectedRegion
    /\ selectedRegion' = r
    /\ hist' = [ev |-> "region", done |-> hist.done, other |-> hist.other + 1]
    /\ UNCHANGED <<data, error, debugInfo, isLoading, pending, crashed,
                   lastOk, engine, arg, ret>>

NextLegacy ==
    \/ LegacySelectNoFile
    \/ \E f \in Files : LegacyStartUpload(f)
    \/ \E i \in 1..MaxUploads : LegacyOnLoadThrows(i)
    \/ \E i \in 1..MaxUploads : LegacyOnLoadNoRows(i)
    \/ \E i \in 1..MaxUploads : LegacyOnLoadRows(i)
    \/ \E r \in RegionCodes : LegacySelectRegion(r)

SpecLegacy == Init /\ [][NextLegacy]_vars

\* C5: every record an upload produced carries the six region fields (GA/X x
\* Cost/Impression/Click) of each of the four regions KR, EN, CNTW and JP,
\* whichever region was selected when the upload was processed.
C5_EveryRegionInEveryRecord ==
    \A i \in 1..Len(data) : ClaimRegionColumns \subseteq DOMAIN data[i]

====
